---- MODULE Spec2Model ----
(***************************************************************************)
(* Session lifecycle of src/server.js: the registry `sessions`, the        *)
(* session records, the transport handles made by makeWASocket, the        *)
(* asynchronous calls suspended at an await, and the reconnect timers.     *)
(*                                                                         *)
(* Scheduling: Node's single thread.  Code between two awaits is one       *)
(* atomic action.  An await on real I/O (sock.logout, useMultiFileAuth-    *)
(* State, fetchLatestBaileysVersion, the fetch of sendWebhook) is a        *)
(* suspension point: the rest of the function is a later action.  An await *)
(* on a promise that synchronous code has already settled                  *)
(* (await getOrCreateSession, await cleanupSession without logout) resumes *)
(* in the same microtask drain, before any request, timer or transport     *)
(* event, and is not a suspension point.                                   *)
(*                                                                         *)
(* Transport (the external library): a handle is live from makeWASocket    *)
(* until it emits connection 'close'; it emits a pairing payload only      *)
(* while it has no user, 'open' only once it has a user ("Conexão aberta   *)
(* (autenticado)", server.js line 207), and nothing after 'close'.         *)
(* sock.logout() on a live handle ends it with a logged-out 'close'; on a  *)
(* closed handle it throws.                                                *)
(***************************************************************************)
EXTENDS Integers, Sequences, FiniteSets, Bags, TLC

\* ---------------------------------------------------------------- bounds
SessionIds == {"s1"}
MaxSocks == 2        \* handles a run of Spec may make
MaxRetrySocks == 4   \* handles a run of SpecRetry may make
MaxRecs == 2         \* session records a run may allocate
MaxTasks == 2        \* calls suspended at an await at one time
MaxMinutes == 1      \* whole QR lifetimes a run of SpecQr lets pass
MaxJitter == 1       \* extra milliseconds a run of SpecQr lets pass
MaxBatch == 2        \* messages in one messages.upsert batch

\* ------------------------------------------------------------- constants
MaxReconnect == 3
QrTtl == 60000
Null == "null"
NoSock == 0
NoExpiry == 0
NoUser == << >>
NoPhone == << >>
LoggedOut == "loggedOut"
StatusCodes == {LoggedOut, "connectionLost"}
QrPayloads == {"XYZ"}
UserIds == { <<"5511999999999", ":", "7", "@s.whatsapp.net">> }
Retries == 3
Url == "https://hook.example/wa"
Outcomes == {"ok", "non2xx", "throw"}
NoQr == << >>
NoReply ==
  [ code |-> 0, status |-> Null, qrcode |-> NoQr, phone |-> NoPhone,
    expiresIn |-> 0 ]
AllIds == SessionIds \cup {"s2"}
ApiKey == "your-secret-key-here"
Keys == {ApiKey, "wrong-key"}
RetryDelay == 2000
CreateWait == 3000
NoBatch == << >>

VARIABLES
  sessions,       \* the Map: session id -> record reference (0 = no entry)
  heap,           \* the session records ever allocated, by reference
  socks,          \* the transport handles ever made, by reference
  authDir,        \* auth_info/<id>: does it exist, and the identity stored
  tasks,          \* bag of calls suspended at an await
  timers,         \* pending setTimeout(createWhatsAppConnection) per id
  currentUserId,  \* the module-level variable of line 40
  now,            \* Date.now()
  last,           \* the step just taken: what ran, on which id/record/handle
  chain,          \* per id: reconnects scheduled since the last request for
                  \* the id or 'open' on it (history, read by no action)
  budget,         \* handles the run may make (fixed by Init)
  webhookUrl,     \* process.env.WEBHOOK_URL (fixed by Init)
  issued,         \* per record: when its latest pairing payload was emitted
                  \* (history, read by no action)
  notified        \* the handles whose closure the webhook endpoint has
                  \* acknowledged with 2xx (history, read by no action)

vars == <<sessions, heap, socks, authDir, tasks, timers, currentUserId, now,
          last, chain, budget, webhookUrl, issued, notified>>

\* ------------------------------------------------------------ pure parts

\* getOrCreateSession, the literal of a new record
NewSession ==
  [ sock |-> NoSock, qrCodeData |-> Null, qrExpiry |-> NoExpiry,
    connectionStatus |-> "disconnected", authState |-> Null,
    phoneNumber |-> NoPhone, reconnectAttempts |-> 0 ]

RECURSIVE SplitHead(_)
\* id.split(':')[0]: the tokens before the first ':'
SplitHead(id) ==
  IF id = << >> THEN << >>
  ELSE IF Head(id) = ":" THEN << >>
  ELSE <<Head(id)>> \o SplitHead(Tail(id))

\* variant: reads a property the user object does not have
PhoneOfWrongField(user) == NoPhone

\* sock.user?.id?.split(':')[0] || null
PhoneOf(user) ==
  IF user = NoUser THEN NoPhone
  ELSE IF SplitHead(user) = << >> THEN NoPhone ELSE SplitHead(user)

\* variant: the reference to the handle is kept
CleanupFieldsKeepsSock(rec) ==
  [ rec EXCEPT !.qrCodeData = Null, !.qrExpiry = NoExpiry,
               !.connectionStatus = "disconnected", !.phoneNumber = NoPhone,
               !.reconnectAttempts = 0 ]

\* cleanupSession, the assignments after the logout attempt (sock = null is
\* skipped on a record without handle, where sock is null already)
CleanupFields(rec) ==
  [ rec EXCEPT !.sock = NoSock, !.qrCodeData = Null, !.qrExpiry = NoExpiry,
               !.connectionStatus = "disconnected", !.phoneNumber = NoPhone,
               !.reconnectAttempts = 0 ]

\* variant: the payload lives two minutes
QrBranchLongTtl(rec, qr, t) ==
  [ rec EXCEPT !.qrCodeData = qr, !.qrExpiry = t + 2 * QrTtl,
               !.connectionStatus = "qr_ready" ]

\* the `if (qr)` branch of the connection.update handler
QrBranch(rec, qr, t) ==
  [ rec EXCEPT !.qrCodeData = qr, !.qrExpiry = t + QrTtl,
               !.connectionStatus = "qr_ready" ]

\* variant: 'open' leaves the pairing payload in place
OpenBranchKeepsQr(rec, user) ==
  [ rec EXCEPT !.connectionStatus = "connected",
               !.phoneNumber = PhoneOf(user),
               !.reconnectAttempts = 0 ]

\* the `connection === 'open'` branch, up to its first await
OpenBranch(rec, user) ==
  [ rec EXCEPT !.connectionStatus = "connected",
               !.phoneNumber = PhoneOf(user),
               !.qrCodeData = Null, !.qrExpiry = NoExpiry,
               !.reconnectAttempts = 0 ]

\* variant: 'close' leaves the phone number in place
CloseBranchKeepsPhone(rec) ==
  [ rec EXCEPT !.connectionStatus = "disconnected",
               !.qrCodeData = Null, !.qrExpiry = NoExpiry ]

\* the `connection === 'close'` branch, up to its await of sendWebhook
CloseBranch(rec) ==
  [ rec EXCEPT !.connectionStatus = "disconnected",
               !.qrCodeData = Null, !.qrExpiry = NoExpiry,
               !.phoneNumber = NoPhone ]

\* variant: every closure is taken for a transient one
ShouldReconnectAlways(statusCode) == TRUE

\* statusCode !== DisconnectReason.loggedOut
ShouldReconnect(statusCode) == statusCode # LoggedOut

\* variant: the attempt limit is not tested
WillRetryUnbounded(rec, shouldReconnect) == shouldReconnect

\* shouldReconnect && sessionData.reconnectAttempts < 3
WillRetry(rec, shouldReconnect) ==
  shouldReconnect /\ rec.reconnectAttempts < MaxReconnect

\* variant: compares the status with a value it never has
IsCurrentlyConnectedWrongState(rec, ss) ==
  /\ ss[rec.sock].user # NoUser
  /\ rec.connectionStatus = "open"

\* sessionData.sock.user && sessionData.connectionStatus === 'connected'
IsCurrentlyConnected(rec, ss) ==
  /\ ss[rec.sock].user # NoUser
  /\ rec.connectionStatus = "connected"

\* variant: the try has no catch, a rejected fetch escapes sendWebhook
AttemptResultUncaught(outcome) ==
  IF outcome = "ok" THEN "return"
  ELSE IF outcome = "throw" THEN "raise" ELSE "next"

\* sendWebhook, one pass of the loop body: a 2xx response returns; any other
\* response, and any error thrown inside the try, goes on to the next pass
AttemptResult(outcome) ==
  IF outcome = "ok" THEN "return" ELSE "next"

\* variant: the loop has no bound
ReturnsOnlyOnOk(i, result) == result = "return"

\* sendWebhook returns to its caller after pass i ended with `result`
Returns(i, result) ==
  \/ result = "return"
  \/ result = "next" /\ i + 1 >= Retries

\* line 80: the pause after pass i, taken in the catch block only (a non-2xx
\* response whose body parses goes straight on to the next pass)
DelayAfter(i, outcome) ==
  IF outcome = "throw" /\ i < Retries - 1 THEN RetryDelay ELSE 0

\* `currentUserId || sessionId`, the sessionId field of a webhook payload
PayloadSid(cur, sid) == IF cur # Null THEN cur ELSE sid

\* QRCode.toDataURL(qr): the payload rendered as a data URL
ToDataURL(qr) == <<"data:image/png;base64", qr>>

\* Math.max(0, Math.floor((qrExpiry - Date.now()) / 1000)); null counts as 0
ExpiresIn(qrExpiry, t) ==
  IF qrExpiry - t < 0 THEN 0 ELSE (qrExpiry - t) \div 1000

\* ------------------------------------------------------------- auxiliary

\* a call suspended at an await: where it is and the locals it holds
\* (i: the loop variable of sendWebhook; qr: the payload being encoded)
Task(kind, pc, sid, r, h, me, code, retry) ==
  [ kind |-> kind, pc |-> pc, sid |-> sid, rec |-> r, sock |-> h,
    me |-> me, statusCode |-> code, shouldReconnect |-> retry,
    i |-> 0, qr |-> Null, to |-> Null, awaited |-> FALSE,
    batch |-> NoBatch, next |-> 0, sent |-> << >> ]

Spawn(t) == tasks (+) SetToBag({t})
Finish(t) == tasks (-) SetToBag({t})
Become(t, u) == (tasks (-) SetToBag({t})) (+) SetToBag({u})
Pending == BagToSet(tasks)
Connecting == { t \in Pending : t.kind = "connect" }
NumConnecting == BagCardinality([ t \in Connecting |-> tasks[t] ])

Step(op, sid, r, h) ==
  [ op |-> op, sid |-> sid, rec |-> r, sock |-> h, statusCode |-> Null,
    outcome |-> Null, reply |-> NoReply, delay |-> 0, endpoint |-> Null,
    key |-> Null, fresh |-> FALSE, complete |-> TRUE, batch |-> NoBatch,
    sent |-> << >>, caller |-> Null, unhandled |-> FALSE ]

Live(h) == socks[h].state = "live"
LiveOf(sid) == { h \in 1..Len(socks) : socks[h].sid = sid /\ Live(h) }

TypeOK ==
  /\ sessions \in [AllIds -> 0..MaxRecs]
  /\ Len(heap) <= MaxRecs
  /\ Len(socks) <= budget
  /\ \A r \in 1..Len(heap) :
       /\ heap[r].sock \in 0..Len(socks)
       /\ heap[r].connectionStatus \in {"disconnected", "qr_ready", "connected"}
       /\ heap[r].qrCodeData \in QrPayloads \cup {Null}
       /\ heap[r].reconnectAttempts \in Nat

Start ==
  /\ sessions = [ s \in AllIds |-> 0 ]
  /\ heap = << >>
  /\ socks = << >>
  /\ authDir = [ s \in AllIds |-> [ exists |-> FALSE, me |-> NoUser ] ]
  /\ tasks = EmptyBag
  /\ timers = [ s \in AllIds |-> 0 ]
  /\ currentUserId = Null
  /\ now = 0
  /\ last = Step("init", Null, 0, 0)
  /\ chain = [ s \in AllIds |-> 0 ]
  /\ issued = << >>
  /\ notified = {}

Init == Start /\ budget = MaxSocks /\ webhookUrl = Url

InitRetry == Start /\ budget = MaxRetrySocks /\ webhookUrl = Url

\* either deployment: with and without WEBHOOK_URL
InitWebhook == Start /\ budget = MaxSocks /\ webhookUrl \in {Null, Url}

InitQr == Start /\ budget = MaxSocks /\ webhookUrl = Null

InitEvents == Start /\ budget = MaxSocks /\ webhookUrl = Url

InitTenants == Start /\ budget = MaxSocks /\ webhookUrl = Null

InitReconnect == Start /\ budget = MaxSocks /\ webhookUrl = Null

InitShutdown == Start /\ budget = MaxSocks /\ webhookUrl = Null

InitHttp == Start /\ budget = 1 /\ webhookUrl = Null

InitMessages == Start /\ budget = 1 /\ webhookUrl \in {Null, Url}

\* ------------------------------------------------------ getOrCreateSession

\* variant: the registry is not consulted
HasSessionNever(sid) == FALSE

\* sessions.has(sessionId)
HasSession(sid) == sessions[sid] # 0

\* variant: a new id gets the first record ever allocated
RecOfFirst(sid) == IF HasSession(sid) THEN sessions[sid] ELSE 1

\* the record getOrCreateSession returns: the registered one, or a new one
RecOf(sid) == IF HasSession(sid) THEN sessions[sid] ELSE Len(heap) + 1

HeapWith(sid) == IF HasSession(sid) THEN heap ELSE Append(heap, NewSession)

SessionsWith(sid) == [ sessions EXCEPT ![sid] = RecOf(sid) ]

\* fs.mkdirSync(authDir) of a new session when the directory is missing
AuthDirWith(sid) ==
  IF HasSession(sid) THEN authDir ELSE [ authDir EXCEPT ![sid].exists = TRUE ]

\* ----------------------------------- the reconnect decision, lines 276-283

\* the test of line 276 on record r of heap hp, for a closure with `code`
\* (the handler's fields of the close branch do not enter the test)
Reschedules(hp, r, code) == WillRetry(hp[r], ShouldReconnect(code))

HeapDecided(hp, r, code) ==
  IF Reschedules(hp, r, code)
  THEN [ hp EXCEPT ![r].reconnectAttempts = @ + 1 ] ELSE hp

TimersDecided(hp, r, sid, code) ==
  IF Reschedules(hp, r, code)
  THEN [ timers EXCEPT ![sid] = @ + 1 ] ELSE timers

ChainDecided(hp, r, sid, code) ==
  IF Reschedules(hp, r, code)
  THEN [ chain EXCEPT ![sid] = @ + 1 ] ELSE chain

\* ------------------------------------------------- createWhatsAppConnection

\* the call returns at line 163 without touching anything
KeepsConnection(sid) ==
  /\ HasSession(sid)
  /\ heap[sessions[sid]].sock # NoSock
  /\ IsCurrentlyConnected(heap[sessions[sid]], socks)

\* room for one more call that ends in makeWASocket
CanConnect(sid) ==
  /\ HasSession(sid) \/ Len(heap) < MaxRecs
  /\ \/ KeepsConnection(sid)
     \/ /\ Len(socks) + NumConnecting < budget
        /\ BagCardinality(tasks) < MaxTasks

\* lines 153-175: from the call to the first await that suspends; awaited
\* tells whether the caller is the route, which goes on when the call returns
ConnectCall(sid, awaited) ==
  LET r == RecOf(sid)
      hp == HeapWith(sid)
      rec == hp[r]
      call(pc, h) == [ Task("connect", pc, sid, r, h, NoUser, Null, FALSE)
                         EXCEPT !.awaited = awaited ]
  IN /\ sessions' = SessionsWith(sid)
     /\ authDir' = AuthDirWith(sid)
     /\ IF rec.sock # NoSock
        THEN IF IsCurrentlyConnected(rec, socks)
             THEN /\ heap' = hp
                  /\ tasks' = IF awaited
                              THEN Spawn(Task("create", "wait", sid, r,
                                              NoSock, NoUser, Null, FALSE))
                              ELSE tasks
             ELSE IF socks[rec.sock].user # NoUser
                  THEN \* cleanupSession awaits sock.logout()
                       /\ heap' = hp
                       /\ tasks' = Spawn(call("logout", rec.sock))
                  ELSE /\ heap' = [ hp EXCEPT ![r] =
                                    [ CleanupFields(@) EXCEPT
                                        !.reconnectAttempts = 0 ] ]
                       /\ tasks' = Spawn(call("auth", NoSock))
        ELSE /\ heap' = [ hp EXCEPT ![r].reconnectAttempts = 0 ]
             /\ tasks' = Spawn(call("auth", NoSock))

\* a call nobody awaits the result of
ConnectBegin(sid) == ConnectCall(sid, FALSE)

\* POST /create-session: the explicit connect
CreateSession(sid) ==
  /\ CanConnect(sid)
  /\ ConnectBegin(sid)
  /\ chain' = [ chain EXCEPT ![sid] = 0 ]
  /\ last' = Step("create-session", sid, RecOf(sid), 0)
  /\ UNCHANGED <<socks, timers, currentUserId, now, budget, webhookUrl,
                 issued, notified>>

\* the callback of setTimeout(() => createWhatsAppConnection(sessionId))
TimerFire(sid) ==
  /\ timers[sid] > 0
  /\ CanConnect(sid)
  /\ ConnectBegin(sid)
  /\ timers' = [ timers EXCEPT ![sid] = @ - 1 ]
  /\ last' = Step("timer", sid, RecOf(sid), 0)
  /\ UNCHANGED <<socks, currentUserId, now, chain, budget, webhookUrl,
                 issued, notified>>

\* what sock.logout() does to handle h once it has run: a live handle ends
\* with a logged-out 'close', which its connection.update handler receives
HeapAfterLogout(h) ==
  IF Live(h)
  THEN LET hp == [ heap EXCEPT ![socks[h].rec] = CloseBranch(@) ]
       IN IF webhookUrl = Null
          THEN HeapDecided(hp, socks[h].rec, LoggedOut) ELSE hp
  ELSE heap

TimersAfterLogout(h) ==
  IF Live(h) /\ webhookUrl = Null
  THEN TimersDecided(heap, socks[h].rec, socks[h].sid, LoggedOut) ELSE timers

ChainAfterLogout(h) ==
  IF Live(h) /\ webhookUrl = Null
  THEN ChainDecided(heap, socks[h].rec, socks[h].sid, LoggedOut) ELSE chain

SocksAfterLogout(h) ==
  IF Live(h) THEN [ socks EXCEPT ![h].state = "closed" ] ELSE socks

TasksAfterLogout(h, bag) ==
  IF Live(h) /\ webhookUrl # Null
  THEN bag (+) SetToBag({ [ Task("close", "webhook", socks[h].sid,
                                 socks[h].rec, h, NoUser, LoggedOut,
                                 ShouldReconnect(LoggedOut))
                              EXCEPT !.to = PayloadSid(currentUserId,
                                                       socks[h].sid) ] })
  ELSE bag

\* lines 130-145 and 172: logout settled, cleanupSession finishes, the
\* counter is reset, useMultiFileAuthState is awaited
ConnectLogoutDone(t) ==
  /\ t \in Pending /\ t.kind = "connect" /\ t.pc = "logout"
  /\ heap' = [ HeapAfterLogout(t.sock) EXCEPT ![t.rec] =
               [ CleanupFields(@) EXCEPT !.reconnectAttempts = 0 ] ]
  /\ socks' = SocksAfterLogout(t.sock)
  /\ tasks' = TasksAfterLogout(t.sock, Become(t, [ t EXCEPT !.pc = "auth",
                                                          !.sock = NoSock ]))
  /\ timers' = TimersAfterLogout(t.sock)
  /\ chain' = ChainAfterLogout(t.sock)
  /\ last' = Step("connect-logout", t.sid, t.rec, t.sock)
  /\ UNCHANGED <<sessions, authDir, currentUserId, now, budget, webhookUrl,
                 issued, notified>>

\* lines 175-178: useMultiFileAuthState(authDir) resolved (it makes the
\* directory when missing and reads the stored identity), authState is set,
\* fetchLatestBaileysVersion is awaited
ConnectAuthDone(t) ==
  /\ t \in Pending /\ t.kind = "connect" /\ t.pc = "auth"
  /\ authDir' = [ authDir EXCEPT ![t.sid].exists = TRUE ]
  /\ heap' = [ heap EXCEPT ![t.rec].authState = "loaded" ]
  /\ tasks' = Become(t, [ t EXCEPT !.pc = "version", !.me = authDir[t.sid].me ])
  /\ last' = Step("connect-auth", t.sid, t.rec, 0)
  /\ UNCHANGED <<sessions, socks, timers, currentUserId, now, chain, budget,
                 webhookUrl, issued, notified>>

\* lines 182-191 and 323: makeWASocket, sessionData.sock = sock, the
\* handlers are registered, the call returns
ConnectMakeSocket(t) ==
  /\ t \in Pending /\ t.kind = "connect" /\ t.pc = "version"
  /\ socks' = Append(socks, [ sid |-> t.sid, rec |-> t.rec, user |-> t.me,
                              state |-> "live" ])
  /\ heap' = [ heap EXCEPT ![t.rec].sock = Len(socks) + 1 ]
  /\ tasks' = IF t.awaited
              THEN Become(t, Task("create", "wait", t.sid, t.rec, NoSock,
                                  NoUser, Null, FALSE))
              ELSE Finish(t)
  /\ last' = Step("makeWASocket", t.sid, t.rec, Len(socks) + 1)
  /\ UNCHANGED <<sessions, authDir, timers, currentUserId, now, chain,
                 budget, webhookUrl, issued, notified>>

\* ------------------------------------------------------ transport events

\* 'creds.update' -> saveCreds: the handle got its identity (pairing) and
\* the identity is written to the session's directory if there is one
CredsUpdate(h, u) ==
  /\ h \in 1..Len(socks) /\ Live(h) /\ socks[h].user = NoUser
  /\ socks' = [ socks EXCEPT ![h].user = u ]
  /\ authDir' = IF authDir[socks[h].sid].exists
                THEN [ authDir EXCEPT ![socks[h].sid].me = u ]
                ELSE authDir
  /\ last' = Step("creds.update", socks[h].sid, socks[h].rec, h)
  /\ UNCHANGED <<sessions, heap, tasks, timers, currentUserId, now, chain,
                 budget, webhookUrl, issued, notified>>

\* the updates a handle may emit
Updates(h) ==
  { u \in [ qr : QrPayloads \cup {Null},
            connection : {"none", "open", "close"},
            statusCode : StatusCodes \cup {Null} ] :
      /\ u.qr # Null \/ u.connection # "none"
      /\ u.qr # Null => socks[h].user = NoUser
      /\ u.connection = "open" => socks[h].user # NoUser
      /\ u.connection = "close" <=> u.statusCode # Null }

\* lines 196-284: the connection.update handler up to its first await that
\* suspends.  With WEBHOOK_URL set that is the fetch of sendWebhook's first
\* pass; without it sendWebhook returns at line 60 and the handler runs to
\* its end, the reconnect decision included.
ConnectionUpdate(h, u) ==
  /\ h \in 1..Len(socks) /\ Live(h)
  /\ u \in Updates(h)
  /\ (u.connection # "none" /\ webhookUrl # Null)
       => BagCardinality(tasks) < MaxTasks
  /\ LET r == socks[h].rec
         sid == socks[h].sid
         r1 == IF u.qr # Null THEN QrBranch(heap[r], u.qr, now) ELSE heap[r]
         r2 == IF u.connection = "open"
               THEN OpenBranch(r1, socks[h].user) ELSE r1
         r3 == IF u.connection = "close" THEN CloseBranch(r2) ELSE r2
         hp == [ heap EXCEPT ![r] = r3 ]
         inline == u.connection = "close" /\ webhookUrl = Null
     IN /\ heap' = IF inline THEN HeapDecided(hp, r, u.statusCode) ELSE hp
        /\ timers' = IF inline THEN TimersDecided(hp, r, sid, u.statusCode)
                     ELSE timers
        /\ chain' = IF u.connection = "open"
                    THEN [ chain EXCEPT ![sid] = 0 ]
                    ELSE IF inline
                         THEN ChainDecided(hp, r, sid, u.statusCode)
                         ELSE chain
        /\ currentUserId' = IF u.connection = "open" THEN sid
                            ELSE currentUserId
        /\ socks' = IF u.connection = "close"
                    THEN [ socks EXCEPT ![h].state = "closed" ] ELSE socks
        /\ tasks' = IF u.connection # "none" /\ webhookUrl # Null
                    THEN Spawn([ Task(u.connection, "webhook", sid, r, h,
                                      NoUser, u.statusCode,
                                      IF u.connection = "close"
                                      THEN ShouldReconnect(u.statusCode)
                                      ELSE FALSE)
                                 EXCEPT !.to = PayloadSid(currentUserId', sid) ])
                    ELSE tasks
        /\ issued' = IF u.qr # Null THEN (r :> now) @@ issued ELSE issued
        /\ last' = [ Step(IF u.connection = "none" THEN "qr"
                            ELSE u.connection, sid, r, h) EXCEPT
                       !.statusCode = u.statusCode ]
  /\ UNCHANGED <<sessions, authDir, now, budget, webhookUrl, notified>>

\* sendWebhook, lines 62-82: the fetch of pass i settled with outcome o, the
\* pass does not end the call, and the fetch of pass i+1 is issued
WebhookRetry(t, o) ==
  /\ t \in Pending /\ t.pc = "webhook"
  /\ AttemptResult(o) = "next"
  /\ ~Returns(t.i, "next")
  /\ tasks' = Become(t, [ t EXCEPT !.i = @ + 1 ])
  /\ last' = [ Step("webhook-retry", t.sid, t.rec, t.sock) EXCEPT
                 !.outcome = o, !.delay = DelayAfter(t.i, o) ]
  /\ UNCHANGED <<sessions, heap, socks, authDir, timers, currentUserId, now,
                 chain, budget, webhookUrl, issued, notified>>

\* line 253: the last fetch of sendWebhook settled, the 'open' branch ends
OpenContinue(t) ==
  /\ t \in Pending /\ t.kind = "open"
  /\ \E o \in Outcomes :
       /\ \/ Returns(t.i, AttemptResult(o))
          \/ AttemptResult(o) = "raise"
       /\ last' = [ Step(IF AttemptResult(o) = "raise"
                         THEN "open-rejected" ELSE "open-done",
                         t.sid, t.rec, t.sock) EXCEPT !.outcome = o ]
  /\ tasks' = Finish(t)
  /\ UNCHANGED <<sessions, heap, socks, authDir, timers, currentUserId, now,
                 chain, budget, webhookUrl, issued, notified>>

\* lines 268-284: the last fetch of sendWebhook settled, the reconnect
\* decision (an error escaping sendWebhook would reject the handler at line
\* 268 and skip the decision)
CloseContinue(t) ==
  /\ t \in Pending /\ t.kind = "close"
  /\ \E o \in Outcomes :
       /\ \/ Returns(t.i, AttemptResult(o))
          \/ AttemptResult(o) = "raise"
       /\ IF AttemptResult(o) = "raise"
          THEN /\ UNCHANGED <<heap, timers, chain, notified>>
               /\ last' = [ Step("close-rejected", t.sid, t.rec, t.sock)
                              EXCEPT !.statusCode = t.statusCode,
                                     !.outcome = o ]
          ELSE /\ IF WillRetry(heap[t.rec], t.shouldReconnect)
                  THEN /\ heap' = [ heap EXCEPT
                                      ![t.rec].reconnectAttempts = @ + 1 ]
                       /\ timers' = [ timers EXCEPT ![t.sid] = @ + 1 ]
                       /\ chain' = [ chain EXCEPT ![t.sid] = @ + 1 ]
                  ELSE UNCHANGED <<heap, timers, chain>>
               /\ notified' = IF o = "ok" THEN notified \cup {t.sock}
                              ELSE notified
               /\ last' = [ Step("close-decided", t.sid, t.rec, t.sock)
                              EXCEPT !.statusCode = t.statusCode,
                                     !.outcome = o ]
  /\ tasks' = Finish(t)
  /\ UNCHANGED <<sessions, socks, authDir, currentUserId, now, budget,
                 webhookUrl, issued>>

\* ------------------------------------------------------- messages.upsert

\* what the handler reads of a message: has it a body, is it our own
Msgs == [ body : BOOLEAN, fromMe : BOOLEAN ]

\* the batches the transport may deliver
Batches == UNION { [ 1..n -> Msgs ] : n \in 1..MaxBatch }

\* variant: own messages are forwarded too
SkipsOnlyEmpty(msg) == ~msg.body

\* line 295: if (!msg.message || msg.key.fromMe) continue
Skips(msg) == ~msg.body \/ msg.fromMe

\* the for loop of line 294 from position k on: the first message that is
\* not skipped (0: none, the loop ends)
NextToSend(batch, k) ==
  IF \E j \in k..Len(batch) : ~Skips(batch[j])
  THEN CHOOSE j \in k..Len(batch) :
         /\ ~Skips(batch[j])
         /\ \A m \in k..(j - 1) : Skips(batch[m])
  ELSE 0

RECURSIVE AllToSend(_, _)
\* the messages the loop passes to sendWebhook when no call suspends
AllToSend(batch, k) ==
  IF NextToSend(batch, k) = 0 THEN << >>
  ELSE <<NextToSend(batch, k)>> \o AllToSend(batch, NextToSend(batch, k) + 1)

\* lines 293-309: the handler up to its first await that suspends (the fetch
\* of sendWebhook for the first message it forwards), or to its end
MessagesUpsert(h, batch) ==
  /\ h \in 1..Len(socks) /\ Live(h) /\ socks[h].user # NoUser
  /\ batch \in Batches
  /\ LET sid == socks[h].sid
         r == socks[h].rec
         j == NextToSend(batch, 1)
     IN IF webhookUrl # Null /\ j # 0
        THEN /\ BagCardinality(tasks) < MaxTasks
             /\ tasks' = Spawn([ Task("upsert", "webhook", sid, r, h, NoUser,
                                      Null, FALSE)
                                 EXCEPT !.batch = batch, !.next = j,
                                        !.sent = <<j>>,
                                        !.to = PayloadSid(currentUserId,
                                                          sid) ])
             /\ last' = [ Step("upsert", sid, r, h) EXCEPT !.batch = batch ]
        ELSE /\ tasks' = tasks
             /\ last' = [ Step("upsert-done", sid, r, h) EXCEPT
                            !.batch = batch,
                            !.sent = AllToSend(batch, 1) ]
  /\ UNCHANGED <<sessions, heap, socks, authDir, timers, currentUserId, now,
                 chain, budget, webhookUrl, issued, notified>>

\* lines 309-320: the last fetch of sendWebhook settled, the loop goes on to
\* the next message it forwards, or ends
UpsertContinue(t) ==
  /\ t \in Pending /\ t.kind = "upsert"
  /\ \E o \in Outcomes :
       /\ \/ Returns(t.i, AttemptResult(o))
          \/ AttemptResult(o) = "raise"
       /\ LET j == NextToSend(t.batch, t.next + 1)
          IN IF AttemptResult(o) = "raise"
             THEN /\ tasks' = Finish(t)
                  /\ last' = [ Step("upsert-rejected", t.sid, t.rec, t.sock)
                                 EXCEPT !.outcome = o, !.batch = t.batch,
                                        !.sent = t.sent ]
             ELSE IF j = 0
             THEN /\ tasks' = Finish(t)
                  /\ last' = [ Step("upsert-done", t.sid, t.rec, t.sock)
                                 EXCEPT !.outcome = o, !.batch = t.batch,
                                        !.sent = t.sent ]
             ELSE /\ tasks' = Become(t, [ t EXCEPT
                                  !.i = 0, !.next = j,
                                  !.sent = Append(@, j),
                                  !.to = PayloadSid(currentUserId, t.sid) ])
                  /\ last' = [ Step("upsert-next", t.sid, t.rec, t.sock)
                                 EXCEPT !.outcome = o, !.batch = t.batch ]
  /\ UNCHANGED <<sessions, heap, socks, authDir, timers, currentUserId, now,
                 chain, budget, webhookUrl, issued, notified>>

\* ------------------------------------------- POST /disconnect, /logout

\* variant: logout is called on any handle, authenticated or not
CleanupSuspendsUnpaired(sid) ==
  /\ HasSession(sid)
  /\ heap[sessions[sid]].sock # NoSock

\* cleanupSession up to its await of sock.logout(), or to its end
CleanupSuspends(sid) ==
  /\ HasSession(sid)
  /\ heap[sessions[sid]].sock # NoSock
  /\ socks[heap[sessions[sid]].sock].user # NoUser

HeapCleaned(sid) ==
  IF HasSession(sid)
  THEN [ heap EXCEPT ![sessions[sid]] = CleanupFields(@) ] ELSE heap

\* handleDisconnect, lines 329-343
Disconnect(sid) ==
  /\ BagCardinality(tasks) < MaxTasks
  /\ IF CleanupSuspends(sid)
     THEN /\ tasks' = Spawn(Task("disconnect", "logout", sid, sessions[sid],
                                 heap[sessions[sid]].sock, NoUser, Null, FALSE))
          /\ heap' = heap
     ELSE /\ tasks' = tasks
          /\ heap' = HeapCleaned(sid)
  /\ chain' = [ chain EXCEPT ![sid] = 0 ]
  /\ last' = Step("disconnect", sid, sessions[sid], 0)
  /\ UNCHANGED <<sessions, socks, authDir, timers, currentUserId, now,
                 budget, webhookUrl, issued, notified>>

DisconnectLogoutDone(t) ==
  /\ t \in Pending /\ t.kind = "disconnect"
  /\ heap' = [ HeapAfterLogout(t.sock) EXCEPT ![t.rec] = CleanupFields(@) ]
  /\ socks' = SocksAfterLogout(t.sock)
  /\ tasks' = TasksAfterLogout(t.sock, Finish(t))
  /\ timers' = TimersAfterLogout(t.sock)
  /\ chain' = ChainAfterLogout(t.sock)
  /\ last' = Step("disconnect-done", t.sid, t.rec, t.sock)
  /\ UNCHANGED <<sessions, authDir, currentUserId, now, budget, webhookUrl,
                 issued, notified>>

\* --------------------------------------------------- DELETE /session/:id

\* variant: the directory is left on disk
AuthDirKept(sid) == authDir

\* lines 474-480: fs.rmSync(authDir) and sessions.delete(sessionId)
AuthDirRemoved(sid) ==
  [ authDir EXCEPT ![sid] = [ exists |-> FALSE, me |-> NoUser ] ]

DeleteSession(sid) ==
  /\ BagCardinality(tasks) < MaxTasks
  /\ IF CleanupSuspends(sid)
     THEN /\ tasks' = Spawn(Task("delete", "logout", sid, sessions[sid],
                                 heap[sessions[sid]].sock, NoUser, Null, FALSE))
          /\ UNCHANGED <<heap, authDir, sessions>>
     ELSE /\ tasks' = tasks
          /\ heap' = HeapCleaned(sid)
          /\ authDir' = AuthDirRemoved(sid)
          /\ sessions' = [ sessions EXCEPT ![sid] = 0 ]
  /\ chain' = [ chain EXCEPT ![sid] = 0 ]
  /\ last' = Step("delete", sid, sessions[sid], 0)
  /\ UNCHANGED <<socks, timers, currentUserId, now, budget, webhookUrl,
                 issued, notified>>

DeleteLogoutDone(t) ==
  /\ t \in Pending /\ t.kind = "delete"
  /\ heap' = [ HeapAfterLogout(t.sock) EXCEPT ![t.rec] = CleanupFields(@) ]
  /\ socks' = SocksAfterLogout(t.sock)
  /\ tasks' = TasksAfterLogout(t.sock, Finish(t))
  /\ authDir' = AuthDirRemoved(t.sid)
  /\ sessions' = [ sessions EXCEPT ![t.sid] = 0 ]
  /\ timers' = TimersAfterLogout(t.sock)
  /\ chain' = ChainAfterLogout(t.sock)
  /\ last' = Step("delete-done", t.sid, t.rec, t.sock)
  /\ UNCHANGED <<currentUserId, now, budget, webhookUrl, issued, notified>>

\* ------------------------------------------------------------ GET /qrcode

\* the instants a run lets the clock show
Instants ==
  { m * QrTtl + j : m \in 0..MaxMinutes, j \in 0..MaxJitter }

\* time passes; encoding a payload (QRCode.toDataURL) takes none of it
Tick ==
  /\ \A t \in Pending : t.kind # "qrcode"
  /\ \E t \in Instants : t > now /\ now' = t
  /\ last' = Step("tick", Null, 0, 0)
  /\ UNCHANGED <<sessions, heap, socks, authDir, tasks, timers, currentUserId,
                 chain, budget, webhookUrl, issued, notified>>

\* variant: the payload is dropped at its expiry instant already
ExpiredInclusive(rec, t) ==
  /\ rec.qrCodeData # Null
  /\ rec.qrExpiry # NoExpiry
  /\ t >= rec.qrExpiry

\* line 423: qrCodeData && qrExpiry && Date.now() > qrExpiry
Expired(rec, t) ==
  /\ rec.qrCodeData # Null
  /\ rec.qrExpiry # NoExpiry
  /\ t > rec.qrExpiry

\* lines 423-427: the record after the expiry test
AfterExpiry(rec, t) ==
  IF Expired(rec, t)
  THEN [ rec EXCEPT !.qrCodeData = Null, !.qrExpiry = NoExpiry ] ELSE rec

\* the request is answered without encoding anything
AnswersAtOnce(sid) ==
  \/ ~HasSession(sid)
  \/ AfterExpiry(heap[sessions[sid]], now).connectionStatus = "connected"
  \/ AfterExpiry(heap[sessions[sid]], now).qrCodeData = Null

\* lines 413-439 and 447: the handler up to its await of QRCode.toDataURL,
\* or to its response
GetQrcode(sid) ==
  /\ ~AnswersAtOnce(sid) => BagCardinality(tasks) < MaxTasks
  /\ IF ~HasSession(sid)
     THEN /\ last' = [ Step("qrcode", sid, 0, 0) EXCEPT
                         !.reply.status = "disconnected" ]
          /\ UNCHANGED <<heap, tasks>>
     ELSE LET r == sessions[sid]
              rec == AfterExpiry(heap[r], now)
          IN /\ heap' = [ heap EXCEPT ![r] = rec ]
             /\ IF rec.connectionStatus = "connected"
                THEN /\ last' = [ Step("qrcode", sid, r, 0) EXCEPT
                                    !.reply.status = "connected",
                                    !.reply.phone = rec.phoneNumber ]
                     /\ tasks' = tasks
                ELSE IF rec.qrCodeData # Null
                THEN /\ last' = Step("qrcode-encode", sid, r, 0)
                     /\ tasks' = Spawn([ Task("qrcode", "encode", sid, r,
                                              NoSock, NoUser, Null, FALSE)
                                           EXCEPT !.qr = rec.qrCodeData ])
                ELSE /\ last' = [ Step("qrcode", sid, r, 0) EXCEPT
                                    !.reply.status = rec.connectionStatus ]
                     /\ tasks' = tasks
  /\ UNCHANGED <<sessions, socks, authDir, timers, currentUserId, now, chain,
                 budget, webhookUrl, issued, notified>>

\* lines 439-444: the payload is encoded, the response is built from the
\* record as it is now
QrcodeReply(t) ==
  /\ t \in Pending /\ t.kind = "qrcode"
  /\ tasks' = Finish(t)
  /\ last' = [ Step("qrcode-reply", t.sid, t.rec, 0) EXCEPT
                 !.reply.qrcode = ToDataURL(t.qr),
                 !.reply.status = heap[t.rec].connectionStatus,
                 !.reply.expiresIn = ExpiresIn(heap[t.rec].qrExpiry, now) ]
  /\ UNCHANGED <<sessions, heap, socks, authDir, timers, currentUserId, now,
                 chain, budget, webhookUrl, issued, notified>>

\* ----------------------------------------------------- SIGINT, SIGTERM

\* sessions.entries() after the entry of record k: a Map is walked in
\* insertion order, which is the order the records were allocated in, and
\* the walk sees the entries added while it is suspended (0: no entry left)
NextEntry(k) ==
  IF \E sid \in AllIds : sessions[sid] > k
  THEN CHOOSE r \in (k + 1)..Len(heap) :
         /\ \E sid \in AllIds : sessions[sid] = r
         /\ \A sid \in AllIds : sessions[sid] > k => sessions[sid] >= r
  ELSE 0

\* the id under which record r is registered
SidOf(r) == CHOOSE sid \in AllIds : sessions[sid] = r

RECURSIVE Drain(_, _)
\* lines 549-551: the loop from the entry after record k, on heap hp, up to
\* the first cleanupSession that awaits sock.logout() (stop: its record) or
\* to the end of the registry (stop = 0)
Drain(hp, k) ==
  LET r == NextEntry(k)
  IN IF r = 0 THEN [ heap |-> hp, stop |-> 0 ]
     ELSE IF hp[r].sock # NoSock /\ socks[hp[r].sock].user # NoUser
     THEN [ heap |-> hp, stop |-> r ]
     ELSE Drain([ hp EXCEPT ![r] = CleanupFields(@) ], r)

\* the process has not called process.exit
Running == last.op # "exit"

\* lines 547-553 (and 555-560): the signal handler up to its first await
\* that suspends, or to process.exit(0)
Signal ==
  /\ Running
  /\ \A t \in Pending : t.kind # "shutdown"
  /\ LET d == Drain(heap, 0)
     IN /\ heap' = d.heap
        /\ IF d.stop = 0
           THEN /\ tasks' = tasks
                /\ last' = Step("exit", Null, 0, 0)
           ELSE /\ BagCardinality(tasks) < MaxTasks
                /\ tasks' = Spawn(Task("shutdown", "logout", SidOf(d.stop),
                                       d.stop, heap[d.stop].sock, NoUser,
                                       Null, FALSE))
                /\ last' = Step("signal", SidOf(d.stop), d.stop, 0)
  /\ UNCHANGED <<sessions, socks, authDir, timers, currentUserId, now, chain,
                 budget, webhookUrl, issued, notified>>

\* lines 130-145 and 549-552: logout settled, cleanupSession finishes, the
\* loop goes on to the next entry or process.exit(0) is called
ShutdownLogoutDone(t) ==
  /\ Running
  /\ t \in Pending /\ t.kind = "shutdown"
  /\ LET d == Drain([ HeapAfterLogout(t.sock) EXCEPT
                       ![t.rec] = CleanupFields(@) ], t.rec)
     IN /\ heap' = d.heap
        /\ IF d.stop = 0
           THEN /\ tasks' = TasksAfterLogout(t.sock, Finish(t))
                /\ last' = Step("exit", t.sid, t.rec, t.sock)
           ELSE /\ tasks' = TasksAfterLogout(t.sock,
                               Become(t, [ t EXCEPT
                                             !.sid = SidOf(d.stop),
                                             !.rec = d.stop,
                                             !.sock = heap[d.stop].sock ]))
                /\ last' = Step("shutdown-next", t.sid, t.rec, t.sock)
  /\ socks' = SocksAfterLogout(t.sock)
  /\ timers' = TimersAfterLogout(t.sock)
  /\ chain' = ChainAfterLogout(t.sock)
  /\ UNCHANGED <<sessions, authDir, currentUserId, now, budget, webhookUrl,
                 issued, notified>>

\* ------------------------------------------------- POST /create-session

\* line 388: expiresIn: 60
CreateExpiresIn == 60

\* variant: the route waits until the transport showed a QR or opened
WaitOverWhenReady(rec) ==
  rec.connectionStatus = "connected" \/ rec.qrCodeData # Null

\* line 369: the wait ends when the 3 s timer fires, whatever the record shows
WaitOver(rec) == TRUE

\* lines 359-366: the route up to its await of createWhatsAppConnection; the
\* body's reconnect, force and fresh are not passed on (line 366)
CreateSessionRoute(sid, fresh) ==
  /\ CanConnect(sid)
  /\ ConnectCall(sid, TRUE)
  /\ chain' = [ chain EXCEPT ![sid] = 0 ]
  /\ last' = [ Step("create-session", sid, RecOf(sid), 0) EXCEPT
                 !.fresh = fresh ]
  /\ UNCHANGED <<socks, timers, currentUserId, now, budget, webhookUrl,
                 issued, notified>>

\* lines 175-182: useMultiFileAuthState, fetchLatestBaileysVersion or
\* makeWASocket throws; nothing in createWhatsAppConnection catches it, the
\* awaiting route answers 500 (lines 397-400); the timer callback of line
\* 280 drops the promise, whose rejection nothing handles
ConnectFails(t) ==
  /\ t \in Pending /\ t.kind = "connect" /\ t.pc \in {"auth", "version"}
  /\ tasks' = Finish(t)
  /\ last' = [ Step("connect-failed", t.sid, t.rec, 0) EXCEPT
                 !.reply.code = IF t.awaited THEN 500 ELSE 0,
                 !.caller = IF t.awaited THEN "route" ELSE "timer",
                 !.unhandled = ~t.awaited ]
  /\ UNCHANGED <<sessions, heap, socks, authDir, timers, currentUserId, now,
                 chain, budget, webhookUrl, issued, notified>>

\* lines 369-396: the timer fired; the response is built from the record the
\* call returned, or QRCode.toDataURL is awaited first
CreateWaitDone(t) ==
  /\ t \in Pending /\ t.kind = "create" /\ t.pc = "wait"
  /\ WaitOver(heap[t.rec])
  /\ LET rec == heap[t.rec]
     IN IF rec.connectionStatus = "connected"
        THEN /\ tasks' = Finish(t)
             /\ last' = [ Step("create-reply", t.sid, t.rec, 0) EXCEPT
                            !.reply.code = 200,
                            !.reply.status = "connected",
                            !.reply.phone = rec.phoneNumber,
                            !.delay = CreateWait ]
        ELSE IF rec.qrCodeData # Null
        THEN /\ tasks' = Become(t, [ t EXCEPT !.pc = "encode",
                                              !.qr = rec.qrCodeData ])
             /\ last' = [ Step("create-encode", t.sid, t.rec, 0) EXCEPT
                            !.delay = CreateWait ]
        ELSE /\ tasks' = Finish(t)
             /\ last' = [ Step("create-reply", t.sid, t.rec, 0) EXCEPT
                            !.reply.code = 200,
                            !.reply.status = rec.connectionStatus,
                            !.delay = CreateWait ]
  /\ UNCHANGED <<sessions, heap, socks, authDir, timers, currentUserId, now,
                 chain, budget, webhookUrl, issued, notified>>

\* lines 382-390: the payload is encoded, the response is built from the
\* record as it is now
CreateEncoded(t) ==
  /\ t \in Pending /\ t.kind = "create" /\ t.pc = "encode"
  /\ tasks' = Finish(t)
  /\ last' = [ Step("create-reply", t.sid, t.rec, 0) EXCEPT
                 !.reply.code = 200,
                 !.reply.qrcode = ToDataURL(t.qr),
                 !.reply.status = heap[t.rec].connectionStatus,
                 !.reply.expiresIn = CreateExpiresIn ]
  /\ UNCHANGED <<sessions, heap, socks, authDir, timers, currentUserId, now,
                 chain, budget, webhookUrl, issued, notified>>

\* --------------------------------------------------- POST /send-message

\* variant: a handle is enough, whatever the status
CanSendWithHandle(sid) ==
  HasSession(sid) /\ heap[sessions[sid]].sock # NoSock

\* line 500, negated: sessionData?.sock && connectionStatus === 'connected'
CanSend(sid) ==
  /\ HasSession(sid)
  /\ heap[sessions[sid]].sock # NoSock
  /\ heap[sessions[sid]].connectionStatus = "connected"

\* lines 490-506: the route up to its response or to its await of
\* sock.sendMessage; complete: the body has phone and message
SendMessage(sid, complete) ==
  /\ (complete /\ CanSend(sid)) => BagCardinality(tasks) < MaxTasks
  /\ IF ~complete \/ ~CanSend(sid)
     THEN /\ tasks' = tasks
          /\ last' = [ Step("send-refused", sid, sessions[sid], 0) EXCEPT
                         !.reply.code = 400, !.complete = complete ]
     ELSE /\ tasks' = Spawn(Task("send", "sendMessage", sid, sessions[sid],
                                 heap[sessions[sid]].sock, NoUser, Null,
                                 FALSE))
          /\ last' = Step("send-message", sid, sessions[sid],
                          heap[sessions[sid]].sock)
  /\ UNCHANGED <<sessions, heap, socks, authDir, timers, currentUserId, now,
                 chain, budget, webhookUrl, issued, notified>>

\* lines 506-513: sock.sendMessage settled: 200, or 500 from the catch
SendDone(t, ok) ==
  /\ t \in Pending /\ t.kind = "send"
  /\ tasks' = Finish(t)
  /\ last' = [ Step("send-done", t.sid, t.rec, t.sock) EXCEPT
                 !.reply.code = IF ok THEN 200 ELSE 500 ]
  /\ UNCHANGED <<sessions, heap, socks, authDir, timers, currentUserId, now,
                 chain, budget, webhookUrl, issued, notified>>

\* ------------------------------------------------------- authentication

\* the routes that change state
Endpoints == {"create-session", "disconnect", "logout", "delete",
              "send-message"}

\* variant: every key is accepted
AuthenticateAlways(key) == TRUE

\* lines 46-47: the x-api-key header equals API_KEY
Authenticate(key) == key = ApiKey

\* a caller has at most one create-session request under way
CreateUnderWay ==
  \E t \in Pending : t.kind = "create" \/ (t.kind = "connect" /\ t.awaited)

\* line 15: a request came in and its body was read; authenticate is next
Arrive(ep, sid, key, flag) ==
  /\ last.op # "request"
  /\ ep = "create-session" => CanConnect(sid) /\ ~CreateUnderWay
  /\ ep # "create-session" => BagCardinality(tasks) < MaxTasks
  /\ ep \in {"disconnect", "logout", "delete"} => flag
  /\ last' = [ Step("request", sid, sessions[sid], 0) EXCEPT
                 !.endpoint = ep, !.key = key,
                 !.fresh = (ep = "create-session" /\ flag),
                 !.complete = (ep = "send-message" => flag) ]
  /\ UNCHANGED <<sessions, heap, socks, authDir, tasks, timers,
                 currentUserId, now, chain, budget, webhookUrl, issued,
                 notified>>

\* lines 45-54, then the route: 401 for a wrong key, else the handler
Route ==
  /\ last.op = "request"
  /\ IF Authenticate(last.key)
     THEN CASE last.endpoint = "create-session" ->
                 CreateSessionRoute(last.sid, last.fresh)
            [] last.endpoint \in {"disconnect", "logout"} ->
                 Disconnect(last.sid)
            [] last.endpoint = "delete" -> DeleteSession(last.sid)
            [] last.endpoint = "send-message" ->
                 SendMessage(last.sid, last.complete)
     ELSE /\ last' = [ Step("401", last.sid, last.rec, 0) EXCEPT
                         !.reply.code = 401, !.endpoint = last.endpoint,
                         !.key = last.key ]
          /\ UNCHANGED <<sessions, heap, socks, authDir, tasks, timers,
                         currentUserId, now, chain, budget, webhookUrl,
                         issued, notified>>

\* ------------------------------------------------------------------ Next

Next ==
  \/ \E sid \in SessionIds : CreateSession(sid)
  \/ \E sid \in SessionIds : TimerFire(sid)
  \/ \E t \in Pending : ConnectLogoutDone(t)
  \/ \E t \in Pending : ConnectAuthDone(t)
  \/ \E t \in Pending : ConnectMakeSocket(t)
  \/ \E h \in 1..Len(socks), u \in UserIds : CredsUpdate(h, u)
  \/ \E h \in 1..Len(socks) : \E u \in Updates(h) : ConnectionUpdate(h, u)
  \/ \E t \in Pending : OpenContinue(t)
  \/ \E t \in Pending : CloseContinue(t)
  \/ \E sid \in SessionIds : Disconnect(sid)
  \/ \E t \in Pending : DisconnectLogoutDone(t)
  \/ \E sid \in SessionIds : DeleteSession(sid)
  \/ \E t \in Pending : DeleteLogoutDone(t)

\* The runs with WEBHOOK_URL set in which every webhook is delivered at the
\* first attempt and no time passes.
Spec == Init /\ [][Next]_vars

\* Either deployment, and deliveries that fail; no session is deleted.
NextWebhook ==
  \/ \E sid \in SessionIds : CreateSession(sid)
  \/ \E sid \in SessionIds : TimerFire(sid)
  \/ \E t \in Pending : ConnectLogoutDone(t)
  \/ \E t \in Pending : ConnectAuthDone(t)
  \/ \E t \in Pending : ConnectMakeSocket(t)
  \/ \E h \in 1..Len(socks), u \in UserIds : CredsUpdate(h, u)
  \/ \E h \in 1..Len(socks) : \E u \in Updates(h) : ConnectionUpdate(h, u)
  \/ \E t \in Pending, o \in Outcomes : WebhookRetry(t, o)
  \/ \E t \in Pending : OpenContinue(t)
  \/ \E t \in Pending : CloseContinue(t)
  \/ \E sid \in SessionIds : Disconnect(sid)
  \/ \E t \in Pending : DisconnectLogoutDone(t)

SpecWebhook == InitWebhook /\ [][NextWebhook]_vars

\* Time passes and GET /qrcode is polled; no WEBHOOK_URL, no session is
\* deleted.
NextQr ==
  \/ \E sid \in SessionIds : CreateSession(sid)
  \/ \E sid \in SessionIds : TimerFire(sid)
  \/ \E t \in Pending : ConnectLogoutDone(t)
  \/ \E t \in Pending : ConnectAuthDone(t)
  \/ \E t \in Pending : ConnectMakeSocket(t)
  \/ \E h \in 1..Len(socks), u \in UserIds : CredsUpdate(h, u)
  \/ \E h \in 1..Len(socks) : \E u \in Updates(h) : ConnectionUpdate(h, u)
  \/ \E sid \in SessionIds : Disconnect(sid)
  \/ \E t \in Pending : DisconnectLogoutDone(t)
  \/ Tick
  \/ \E sid \in SessionIds : GetQrcode(sid)
  \/ \E t \in Pending : QrcodeReply(t)

SpecQr == InitQr /\ [][NextQr]_vars

\* Two sessions that connect, pair and close; WEBHOOK_URL set.
NextEvents ==
  \/ \E sid \in AllIds : CreateSession(sid)
  \/ \E t \in Pending : ConnectLogoutDone(t)
  \/ \E t \in Pending : ConnectAuthDone(t)
  \/ \E t \in Pending : ConnectMakeSocket(t)
  \/ \E h \in 1..Len(socks), u \in UserIds : CredsUpdate(h, u)
  \/ \E h \in 1..Len(socks) : \E u \in Updates(h) : ConnectionUpdate(h, u)
  \/ \E t \in Pending : OpenContinue(t)
  \/ \E t \in Pending : CloseContinue(t)

SpecEvents == InitEvents /\ [][NextEvents]_vars

\* One session that connects, pairs, receives messages and closes;
\* WEBHOOK_URL set or not, deliveries may fail.
NextMessages ==
  \/ \E sid \in SessionIds : CreateSession(sid)
  \/ \E t \in Pending : ConnectAuthDone(t)
  \/ \E t \in Pending : ConnectMakeSocket(t)
  \/ \E h \in 1..Len(socks), u \in UserIds : CredsUpdate(h, u)
  \/ \E h \in 1..Len(socks) : \E u \in Updates(h) : ConnectionUpdate(h, u)
  \/ \E t \in Pending, o \in Outcomes : WebhookRetry(t, o)
  \/ \E t \in Pending : OpenContinue(t)
  \/ \E t \in Pending : CloseContinue(t)
  \/ \E h \in 1..Len(socks), b \in Batches : MessagesUpsert(h, b)
  \/ \E t \in Pending : UpsertContinue(t)

SpecMessages == InitMessages /\ [][NextMessages]_vars

\* One session with one connection, driven through the authenticated routes;
\* no WEBHOOK_URL.
NextHttp ==
  \/ \E ep \in Endpoints, sid \in SessionIds, key \in Keys,
        flag \in BOOLEAN : Arrive(ep, sid, key, flag)
  \/ Route
  \/ \E t \in Pending : ConnectAuthDone(t)
  \/ \E t \in Pending : ConnectMakeSocket(t)
  \/ \E t \in Pending : ConnectFails(t)
  \/ \E h \in 1..Len(socks), u \in UserIds : CredsUpdate(h, u)
  \/ \E h \in 1..Len(socks) : \E u \in Updates(h) : ConnectionUpdate(h, u)
  \/ \E t \in Pending : DisconnectLogoutDone(t)
  \/ \E t \in Pending : DeleteLogoutDone(t)
  \/ \E t \in Pending, ok \in BOOLEAN : SendDone(t, ok)
  \/ \E t \in Pending : CreateWaitDone(t)
  \/ \E t \in Pending : CreateEncoded(t)

\* the timer of line 369 fires and QRCode.toDataURL settles; nothing is
\* assumed of the transport or of the callers
SpecHttp ==
  /\ InitHttp /\ [][NextHttp]_vars
  /\ WF_vars(\E t \in Pending : CreateWaitDone(t))
  /\ WF_vars(\E t \in Pending : CreateEncoded(t))

\* Two sessions and every operation on each of them; no WEBHOOK_URL.
NextTenants ==
  \/ \E sid \in AllIds : CreateSession(sid)
  \/ \E sid \in AllIds : TimerFire(sid)
  \/ \E t \in Pending : ConnectLogoutDone(t)
  \/ \E t \in Pending : ConnectAuthDone(t)
  \/ \E t \in Pending : ConnectMakeSocket(t)
  \/ \E h \in 1..Len(socks), u \in UserIds : CredsUpdate(h, u)
  \/ \E h \in 1..Len(socks) : \E u \in Updates(h) : ConnectionUpdate(h, u)
  \/ \E sid \in AllIds : Disconnect(sid)
  \/ \E t \in Pending : DisconnectLogoutDone(t)
  \/ \E sid \in AllIds : DeleteSession(sid)
  \/ \E t \in Pending : DeleteLogoutDone(t)

SpecTenants == InitTenants /\ [][NextTenants]_vars

\* Connects through the route and through reconnect timers, either of
\* which may fail; no handle is paired, no WEBHOOK_URL.
NextReconnect ==
  \/ \E sid \in SessionIds : CreateSessionRoute(sid, FALSE)
  \/ \E sid \in SessionIds : TimerFire(sid)
  \/ \E t \in Pending : ConnectAuthDone(t)
  \/ \E t \in Pending : ConnectMakeSocket(t)
  \/ \E t \in Pending : ConnectFails(t)
  \/ \E h \in 1..Len(socks) : \E u \in Updates(h) : ConnectionUpdate(h, u)
  \/ \E t \in Pending : CreateWaitDone(t)
  \/ \E t \in Pending : CreateEncoded(t)

SpecReconnect == InitReconnect /\ [][NextReconnect]_vars

\* Two sessions that connect and pair until a signal ends the process; no
\* WEBHOOK_URL.
NextShutdown ==
  \/ Running /\ \E sid \in AllIds : CreateSession(sid)
  \/ Running /\ \E sid \in AllIds : TimerFire(sid)
  \/ Running /\ \E t \in Pending : ConnectLogoutDone(t)
  \/ Running /\ \E t \in Pending : ConnectAuthDone(t)
  \/ Running /\ \E t \in Pending : ConnectMakeSocket(t)
  \/ Running /\ \E h \in 1..Len(socks), u \in UserIds : CredsUpdate(h, u)
  \/ Running /\ \E h \in 1..Len(socks) :
                   \E u \in Updates(h) : ConnectionUpdate(h, u)
  \/ Signal
  \/ \E t \in Pending : ShutdownLogoutDone(t)

SpecShutdown == InitShutdown /\ [][NextShutdown]_vars

\* The runs in which no handle is ever paired and no session is deleted:
\* connects, reconnect timers, closures and disconnects only.
NextRetry ==
  \/ \E sid \in SessionIds : CreateSession(sid)
  \/ \E sid \in SessionIds : TimerFire(sid)
  \/ \E t \in Pending : ConnectAuthDone(t)
  \/ \E t \in Pending : ConnectMakeSocket(t)
  \/ \E h \in 1..Len(socks) : \E u \in Updates(h) : ConnectionUpdate(h, u)
  \/ \E t \in Pending : CloseContinue(t)
  \/ \E sid \in SessionIds : Disconnect(sid)

SpecRetry == InitRetry /\ [][NextRetry]_vars

\* ============================================================ properties

Recs == 1..Len(heap)
Socks == 1..Len(socks)

\* C1: for every session id, at most one of the handles made for it is live
\* at any time.
C1_OneLiveHandle ==
  \A sid \in SessionIds : Cardinality(LiveOf(sid)) <= 1

\* C2: as long as no request for the session and no 'open' intervenes, at
\* most 3 reconnects are scheduled for it in total.
C2_AtMostThreeReconnects ==
  \A sid \in SessionIds : chain[sid] <= MaxReconnect

\* C3: reconnectAttempts of every session record is between 0 and 3.
C3_AttemptsInRange ==
  \A r \in Recs : heap[r].reconnectAttempts \in 0..MaxReconnect

C3_Witness ==
  \E r \in Recs : heap[r].reconnectAttempts = MaxReconnect

\* C4: a closure with the logged-out reason leaves the session
\* 'disconnected' when it is handled, and neither that step nor the rest of
\* the handler (after sendWebhook) adds a reconnect timer.
C4_LoggedOutNeverReconnects ==
  [][ /\ (last'.op = "close" /\ last'.statusCode = LoggedOut)
           => /\ heap'[last'.rec].connectionStatus = "disconnected"
              /\ timers' = timers
      /\ \A t \in Pending :
           ( /\ t.kind = "close"
             /\ t.statusCode = LoggedOut
             /\ tasks' = Finish(t) )
             => /\ timers' = timers
                /\ heap' = heap ]_vars

C4_Witness ==
  /\ last.op = "close-decided"
  /\ last.statusCode = LoggedOut
  /\ timers[last.sid] = 0

\* the session holds an authenticated handle and is 'connected'
HoldsOpenHandle(sid) ==
  /\ sessions[sid] # 0
  /\ heap[sessions[sid]].sock # NoSock
  /\ socks[heap[sessions[sid]].sock].user # NoUser
  /\ heap[sessions[sid]].connectionStatus = "connected"

\* C5: createWhatsAppConnection on a session that holds an authenticated
\* handle and is 'connected' changes no record, no handle, no directory and
\* suspends no call (no cleanup, no logout, no new handle).
C5_ConnectedConnectIsNoOp ==
  [][ \A sid \in SessionIds :
        ( /\ HoldsOpenHandle(sid)
          /\ last'.op \in {"create-session", "timer"}
          /\ last'.sid = sid )
          => UNCHANGED <<sessions, heap, socks, authDir, tasks>> ]_vars

C5_Witness ==
  /\ last.op = "create-session"
  /\ HoldsOpenHandle(last.sid)
  /\ heap[sessions[last.sid]].phoneNumber # NoPhone

\* C6: a reconnect timer that fires when its session has no registry entry
\* re-creates neither the entry nor the credential directory and starts no
\* connection.
C6_StaleTimerIsNoOp ==
  [][ \A sid \in SessionIds :
        ( /\ sessions[sid] = 0
          /\ timers'[sid] = timers[sid] - 1 )
          => /\ sessions'[sid] = 0
             /\ authDir' = authDir
             /\ tasks' = tasks ]_vars

\* C7: qrCodeData of a record is non-null only if its connectionStatus is
\* 'qr_ready'.
C7_QrOnlyWhenQrReady ==
  \A r \in Recs :
    heap[r].qrCodeData # Null => heap[r].connectionStatus = "qr_ready"

C7_Witness ==
  /\ last.op = "qr"
  /\ heap[last.rec].qrCodeData # Null

\* C8: phoneNumber of a record is non-null only if its connectionStatus is
\* 'connected'.
C8_PhoneOnlyWhenConnected ==
  \A r \in Recs :
    heap[r].phoneNumber # NoPhone => heap[r].connectionStatus = "connected"

\* C9: right after an 'open' event is handled the record is 'connected',
\* has no pairing payload and has a phone number.
C9_AfterOpen ==
  last.op = "open" =>
    /\ heap[last.rec].connectionStatus = "connected"
    /\ heap[last.rec].qrCodeData = Null
    /\ heap[last.rec].phoneNumber # NoPhone

C9_Witness ==
  /\ last.op = "open"
  /\ heap[last.rec].phoneNumber = <<"5511999999999">>

\* C10: a record that is 'disconnected' (after a close with any reason, or
\* after cleanupSession) has neither pairing payload nor phone number.
C10_DisconnectedIsBare ==
  \A r \in Recs :
    heap[r].connectionStatus = "disconnected"
      => heap[r].qrCodeData = Null /\ heap[r].phoneNumber = NoPhone

C10_Witness ==
  /\ last.op \in {"close", "disconnect-done"}
  /\ socks[last.sock].user # NoUser
  /\ heap[last.rec].connectionStatus = "disconnected"

\* C11: whenever a record's sock is set to null, the handle it held has been
\* terminated (it is closed after the step), authenticated or not.
C11_CleanupDestroysHandle ==
  [][ \A r \in Recs :
        ( /\ heap[r].sock # NoSock
          /\ heap'[r].sock = NoSock )
          => socks'[heap[r].sock].state = "closed" ]_vars

\* the record as cleanupSession leaves it
Bare(rec) ==
  /\ rec.connectionStatus = "disconnected"
  /\ rec.sock = NoSock
  /\ rec.qrCodeData = Null
  /\ rec.phoneNumber = NoPhone

\* C12: POST /disconnect on a registered session keeps the registry entry and
\* the credential directory, calls logout on the session's handle exactly
\* when that handle is authenticated, and when it completes the record is
\* 'disconnected' with sock, QR and phone null.
C12_DisconnectKeepsCredentials ==
  [][ /\ \A sid \in SessionIds :
           ( /\ last'.op = "disconnect"
             /\ last'.sid = sid
             /\ sessions[sid] # 0 )
             => LET r == sessions[sid]
                    h == heap[r].sock
                    paired == h # NoSock /\ socks[h].user # NoUser
                IN /\ sessions' = sessions
                   /\ authDir' = authDir
                   /\ paired =>
                        \E t \in BagToSet(tasks') :
                          /\ t.kind = "disconnect" /\ t.pc = "logout"
                          /\ t.sock = h
                          /\ tasks' = tasks (+) SetToBag({t})
                   /\ ~paired => /\ tasks' = tasks
                                 /\ Bare(heap'[r])
      /\ last'.op = "disconnect-done"
           => /\ sessions' = sessions
              /\ authDir' = authDir
              /\ Bare(heap'[last'.rec])
              /\ socks'[last'.sock].state = "closed" ]_vars

C12_Witness ==
  /\ last.op = "disconnect-done"
  /\ sessions[last.sid] = last.rec
  /\ authDir[last.sid].exists
  /\ authDir[last.sid].me # NoUser

\* the record as getOrCreateSession allocates it, for a caller
Fresh(rec) ==
  /\ Bare(rec)
  /\ rec.reconnectAttempts = 0

\* C13: when DELETE /session/:id completes the id has no registry entry and
\* no credential directory; the next getOrCreateSession of an unregistered id
\* registers a record that did not exist before, 'disconnected', with sock,
\* QR and phone null and reconnectAttempts 0.
C13_DeleteThenFresh ==
  [][ \A sid \in SessionIds :
        /\ ( /\ last'.sid = sid
             /\ \/ last'.op = "delete-done"
                \/ last'.op = "delete" /\ tasks' = tasks )
             => /\ sessions'[sid] = 0
                /\ ~authDir'[sid].exists
        /\ ( /\ sessions[sid] = 0
             /\ last'.sid = sid
             /\ last'.op \in {"create-session", "timer"} )
             => /\ sessions'[sid] \in (1..Len(heap')) \ Recs
                /\ Fresh(heap'[sessions'[sid]]) ]_vars

C13_Witness ==
  /\ last.op = "create-session"
  /\ sessions[last.sid] = 2
  /\ last.rec = 2
  /\ heap[1].authState = "loaded"
  /\ heap[2] = NewSession

\* C14: a getOrCreateSession call for a registered id returns the registered
\* record and leaves the registry as it is, also while an earlier call for
\* the id is still in flight; the registry holds one record per id.
C14_OneRecordPerId ==
  [][ \A sid \in SessionIds :
        ( /\ sessions[sid] # 0
          /\ last'.sid = sid
          /\ last'.op \in {"create-session", "timer"} )
          => /\ sessions' = sessions
             /\ Len(heap') = Len(heap)
             /\ last'.rec = sessions[sid]
             /\ \A t \in BagToSet(tasks') :
                  ( /\ t.kind = "connect"
                    /\ CopiesIn(t, tasks') > CopiesIn(t, tasks) )
                    => t.rec = sessions[sid] ]_vars

C14_Witness ==
  /\ last.op = "create-session"
  /\ \E t \in Connecting : tasks[t] = 2 /\ t.rec = sessions[last.sid]
  /\ Len(heap) = 1

\* GET /qrcode for a registered session was handled in this step
Polled(sid) ==
  /\ last'.op \in {"qrcode", "qrcode-encode"}
  /\ last'.sid = sid
  /\ sessions[sid] # 0

\* the record's latest payload was emitted at most 60 s ago
WithinTtl(r) == r \in DOMAIN issued /\ now <= issued[r] + QrTtl

\* C15: GET /qrcode returns a payload (goes on to encode it, and answers
\* with it) only if at most 60 s have passed since the record's payload was
\* emitted; a read of a stored payload later than that clears qrCodeData
\* and qrExpiry and answers without QR.
C15_QrReadOnlyWithinTtl ==
  [][ /\ \A sid \in SessionIds :
           Polled(sid) =>
             LET r == sessions[sid]
             IN /\ last'.op = "qrcode-encode" => WithinTtl(r)
                /\ (heap[r].qrCodeData # Null /\ ~WithinTtl(r))
                     => /\ heap'[r].qrCodeData = Null
                        /\ heap'[r].qrExpiry = NoExpiry
                        /\ last'.op = "qrcode"
                        /\ last'.reply.qrcode = NoQr
      /\ last'.op = "qrcode-reply"
           => /\ last'.reply.qrcode # NoQr
              /\ WithinTtl(last'.rec) ]_vars

C15_Witness ==
  /\ last.op = "qrcode"
  /\ last.rec \in DOMAIN issued
  /\ now > issued[last.rec] + QrTtl
  /\ heap[last.rec].connectionStatus = "qr_ready"
  /\ heap[last.rec].qrCodeData = Null
  /\ heap[last.rec].qrExpiry = NoExpiry

\* C16 as stated: a payload emitted at T is returned by every GET /qrcode up
\* to T+60s and by none after, whatever happened to the session in between.
C16_QrReadableForTtl ==
  [][ \A sid \in SessionIds :
        (Polled(sid) /\ sessions[sid] \in DOMAIN issued)
          => (last'.op = "qrcode-encode" <=> WithinTtl(sessions[sid])) ]_vars

\* C16, amended: a payload emitted at T that the record still holds is
\* returned by every GET /qrcode up to T+60s; no payload is returned after
\* T+60s, and none once 'open', a closure, cleanupSession or an expired read
\* has cleared it.
C16_StoredQrReadableForTtl ==
  [][ \A sid \in SessionIds :
        (Polled(sid) /\ sessions[sid] \in DOMAIN issued)
          => ( last'.op = "qrcode-encode"
                 <=> ( /\ heap[sessions[sid]].qrCodeData # Null
                       /\ WithinTtl(sessions[sid]) ) ) ]_vars

C16_Witness ==
  /\ last.op = "qrcode-reply"
  /\ last.reply.qrcode = ToDataURL("XYZ")
  /\ now = issued[last.rec] + QrTtl
  /\ Len(socks) = 2

\* C17: GET /qrcode for a session whose stored payload was emitted more than
\* 60 s earlier answers without QR and with status 'disconnected' or
\* 'connecting'.
C17_ExpiredReadStatus ==
  [][ \A sid \in SessionIds :
        ( /\ Polled(sid)
          /\ heap[sessions[sid]].qrCodeData # Null
          /\ ~WithinTtl(sessions[sid]) )
          => /\ last'.reply.qrcode = NoQr
             /\ last'.reply.status \in {"disconnected", "connecting"} ]_vars

\* C18: an event's delivery is attempted at most 3 times (pass i is attempt
\* i+1), an attempt answered 2xx is never followed by another one, and
\* without WEBHOOK_URL no attempt is ever in flight.
C18_WebhookAttemptsBounded ==
  [][ /\ \A t \in BagToSet(tasks') :
           t.pc = "webhook" => /\ t.i + 1 <= Retries
                               /\ webhookUrl # Null
      /\ last'.op = "webhook-retry" => last'.outcome # "ok" ]_vars

C18_Witness ==
  /\ last.op = "webhook-retry"
  /\ \E t \in Pending : /\ t.pc = "webhook"
                        /\ t.i + 1 = Retries
                        /\ t.sock = last.sock

\* the third attempt of suspended call t has failed in this step
LastAttemptFailed(t) ==
  /\ t.pc = "webhook"
  /\ t.i + 1 = Retries
  /\ CopiesIn(t, tasks') < CopiesIn(t, tasks)
  /\ last'.sock = t.sock
  /\ last'.outcome \in {"non2xx", "throw"}

\* C19: when the third attempt fails too, sendWebhook returns normally: the
\* handler that awaited it goes on (it is not rejected), nothing the
\* transition wrote to a record is undone, and the close handler takes its
\* reconnect decision.
C19_WebhookNeverFailsCaller ==
  [][ \A t \in Pending :
        LastAttemptFailed(t)
          => /\ last'.op \in {"close-decided", "open-done"}
             /\ tasks' = Finish(t)
             /\ \A r \in Recs :
                  [ heap'[r] EXCEPT !.reconnectAttempts = 0 ]
                    = [ heap[r] EXCEPT !.reconnectAttempts = 0 ]
             /\ t.kind = "close"
                  => timers'[t.sid] - timers[t.sid]
                       = IF /\ t.statusCode # LoggedOut
                            /\ heap[t.rec].reconnectAttempts < MaxReconnect
                         THEN 1 ELSE 0 ]_vars

C19_Witness ==
  /\ last.op = "close-decided"
  /\ last.outcome = "throw"
  /\ last.statusCode # LoggedOut
  /\ timers[last.sid] = 1
  /\ heap[last.rec].connectionStatus = "disconnected"
  /\ heap[last.rec].reconnectAttempts = 1

\* C20: with WEBHOOK_URL set, the step that handles a pairing payload starts
\* a webhook delivery for the session.
C20_QrWebhookInitiated ==
  [][ (last'.op = "qr" /\ webhookUrl # Null)
        => \E t \in BagToSet(tasks') :
             /\ t.pc = "webhook"
             /\ t.sid = last'.sid
             /\ CopiesIn(t, tasks') > CopiesIn(t, tasks) ]_vars

\* C27: a reconnect timer that fires while the session holds a live handle
\* (one made by a connect call newer than the closure that set the timer)
\* leaves that handle in place and starts no connection.
C27_TimerKeepsNewerHandle ==
  [][ \A sid \in SessionIds :
        ( /\ last'.op = "timer"
          /\ last'.sid = sid
          /\ sessions[sid] # 0
          /\ heap[sessions[sid]].sock # NoSock
          /\ Live(heap[sessions[sid]].sock) )
          => /\ heap'[sessions[sid]].sock = heap[sessions[sid]].sock
             /\ tasks' = tasks ]_vars

\* C30: whenever an attempt fails and another one follows, sendWebhook
\* pauses before the next attempt.
C30_DelayBeforeRetry ==
  [][ last'.op = "webhook-retry" => last'.delay > 0 ]_vars

\* the positions of the messages with a body that are not our own, in order
Qualifying(batch) ==
  SelectSeq([ j \in 1..Len(batch) |-> j ],
            LAMBDA j : batch[j].body /\ ~batch[j].fromMe)

\* s is an initial part of q
IsPrefix(s, q) == Len(s) <= Len(q) /\ s = SubSeq(q, 1, Len(s))

\* C21: the handler of a batch never ends early; when it ends it has passed
\* to sendWebhook exactly the messages with a body that are not fromMe, once
\* each and in batch order, and while it runs it has passed an initial part
\* of them.
C21_UpsertForwardsInOrder ==
  /\ last.op # "upsert-rejected"
  /\ last.op = "upsert-done" => last.sent = Qualifying(last.batch)
  /\ \A t \in Pending :
       t.kind = "upsert" => /\ t.sent # << >>
                            /\ IsPrefix(t.sent, Qualifying(t.batch))

C21_Witness ==
  /\ last.op = "upsert-done"
  /\ Len(last.batch) = 2
  /\ last.batch[1].fromMe
  /\ last.sent = <<2>>
  /\ last.outcome = "throw"

\* C28: the sessionId of every webhook payload in delivery is the id of the
\* session whose handle emitted the event.
C28_PayloadCarriesOwnSession ==
  \A t \in Pending : t.pc = "webhook" => t.to = t.sid

\* C29: the 'connected' notification of a handle is never acknowledged by
\* the endpoint after the notification of that handle's closure has been.
C29_NotificationsInOrder ==
  [][ (last'.op = "open-done" /\ last'.outcome = "ok")
        => last'.sock \notin notified ]_vars

\* C22: a /send-message request for a session that is missing, has no handle
\* or is not 'connected' is answered with an error and starts no transport
\* call; no step of the route changes a session record, the registry, a
\* handle or the stored credentials.
C22_SendLeavesSessionAlone ==
  [][ /\ ( /\ last.op = "request" /\ last.endpoint = "send-message"
           /\ last'.op \in {"send-refused", "send-message"}
           /\ ~( /\ sessions[last.sid] # 0
                 /\ heap[sessions[last.sid]].sock # NoSock
                 /\ heap[sessions[last.sid]].connectionStatus = "connected" ) )
         => (last'.reply.code >= 400 /\ tasks' = tasks)
      /\ last'.op \in {"send-refused", "send-message", "send-done"}
         => UNCHANGED <<sessions, heap, socks, authDir, timers>> ]_vars

C22_Witness ==
  /\ last.op = "send-refused" /\ last.complete
  /\ sessions[last.sid] # 0
  /\ heap[sessions[last.sid]].sock # NoSock
  /\ heap[sessions[last.sid]].connectionStatus # "connected"

\* C23: a /create-session request with fresh set leaves no stored
\* credentials in the session's directory.
C23_FreshWipesCredentials ==
  [][ (last'.op = "create-session" /\ last'.fresh)
        => authDir'[last'.sid].me = NoUser ]_vars

\* C24: when createWhatsAppConnection fails before it has a handle, the
\* record's state is 'error', it holds no handle, and an awaiting caller gets
\* the error.
C24_ConnectFailureSetsError ==
  [][ last'.op = "connect-failed"
        => /\ heap'[last'.rec].connectionStatus = "error"
           /\ heap'[last'.rec].sock = NoSock
           /\ last'.reply.code = 500 ]_vars

\* C25: a request to a state-changing route whose key is not the configured
\* one is answered 401, and the registry, the records, the handles, the
\* stored credentials, the suspended calls and the timers stay as they were.
C25_WrongKeyRejected ==
  [][ ( /\ last.op = "request" /\ last.key # ApiKey
        /\ last'.op \in {"401", "create-session", "disconnect", "delete",
                          "send-refused", "send-message"} )
        => /\ last'.op = "401" /\ last'.reply.code = 401
           /\ UNCHANGED <<sessions, heap, socks, authDir, tasks, timers,
                          chain, currentUserId>> ]_vars

C25_Witness ==
  /\ last.op = "401" /\ last.endpoint = "delete"
  /\ sessions[last.sid] # 0
  /\ heap[sessions[last.sid]].connectionStatus = "connected"

\* a /create-session request waits for its response
CreateWaiting == \E t \in Pending : t.kind = "create"

\* C26: once createWhatsAppConnection has returned, the route answers
\* whatever the transport does or does not emit, and the response carries the
\* status the record has at that moment.
C26_CreateSessionAnswers ==
  /\ [][ last'.op = "create-reply"
           => /\ last'.reply.code = 200
              /\ last'.reply.status = heap'[last'.rec].connectionStatus ]_vars
  /\ (CreateWaiting ~> ~CreateWaiting)

C26_Witness ==
  /\ last.op = "create-reply"
  /\ last.reply.qrcode = NoQr
  /\ last.reply.status \notin {"connected", "qr_ready"}
  /\ heap[last.rec].sock # NoSock

\* C35: a connection.update event of a handle that is not the record's
\* current sock leaves the record's status, pairing payload, phone number and
\* attempt counter alone and schedules no reconnect.
C35_StaleHandleEventIgnored ==
  [][ ( /\ last'.op \in {"qr", "open", "close"}
        /\ heap[last'.rec].sock # last'.sock )
        => /\ heap'[last'.rec] = heap[last'.rec]
           /\ timers' = timers ]_vars

\* a disconnect of the id has just completed
DisconnectCompleted ==
  \/ last.op = "disconnect-done"
  \/ last.op = "disconnect" /\ \A t \in Pending : t.kind # "disconnect"

\* C36: a reconnect timer that fires right after a disconnect completed
\* starts no connection: the record keeps sock null and 'disconnected'.
C36_DisconnectStaysDisconnected ==
  [][ (DisconnectCompleted /\ last'.op = "timer" /\ last'.sid = last.sid)
        => /\ \A t \in BagToSet(tasks') :
                t.kind = "connect" => CopiesIn(t, tasks') = CopiesIn(t, tasks)
           /\ heap'[last.rec] = heap[last.rec] ]_vars

\* no createWhatsAppConnection and no DELETE is suspended
Quiescent == \A t \in Pending : t.kind \notin {"connect", "delete"}

\* C37: when no connect and no delete is under way, every record that holds a
\* live handle is in the registry, and an id that is not in the registry has
\* no credential directory.
C37_NoHandleForRemovedId ==
  Quiescent =>
    /\ \A r \in Recs :
         (heap[r].sock # NoSock /\ Live(heap[r].sock))
           => \E sid \in SessionIds : sessions[sid] = r
    /\ \A sid \in SessionIds : sessions[sid] = 0 => ~authDir[sid].exists

\* C38: the connect a reconnect timer starts calls logout on no handle.
C38_TimerNeverLogsOut ==
  [][ last'.op = "timer"
        => \A t \in BagToSet(tasks') :
             t.pc = "logout" => CopiesIn(t, tasks') = CopiesIn(t, tasks) ]_vars

\* C39: at most one reconnect timer is pending for a session id.
C39_OneTimerPerSession ==
  \A sid \in SessionIds : timers[sid] <= 1

\* a record as cleanupSession leaves it
Cleaned(rec) ==
  /\ rec.sock = NoSock /\ rec.connectionStatus = "disconnected"
  /\ rec.qrCodeData = Null /\ rec.qrExpiry = NoExpiry
  /\ rec.phoneNumber = NoPhone /\ rec.reconnectAttempts = 0

\* C33: a cleanupSession that runs right after a completed one on the same
\* record changes no record and calls no logout; on an id without record, on a record without
\* handle and on a record with an unpaired handle it completes at once and
\* leaves the record cleaned.
C33_CleanupIdempotent ==
  [][ /\ (DisconnectCompleted /\ last'.op = "disconnect"
            /\ last'.sid = last.sid /\ last'.rec = last.rec)
         => (heap' = heap /\ tasks' = tasks)
      /\ \A sid \in SessionIds :
           ( /\ last'.op = "disconnect" /\ last'.sid = sid
             /\ \/ sessions[sid] = 0
                \/ heap[sessions[sid]].sock = NoSock
                \/ socks[heap[sessions[sid]].sock].user = NoUser )
           => /\ tasks' = tasks
              /\ sessions' = sessions
              /\ sessions[sid] # 0 => Cleaned(heap'[sessions[sid]]) ]_vars

C33_Witness ==
  /\ last.op = "disconnect" /\ sessions[last.sid] # 0
  /\ Cleaned(heap[sessions[last.sid]])
  /\ \A t \in Pending : t.kind # "disconnect"
  /\ \E h \in Socks : /\ socks[h].rec = sessions[last.sid]
                       /\ socks[h].user # NoUser
                       /\ socks[h].state = "closed"

\* C34: a step taken for one session id leaves the registry entry and the
\* record of every other id as they were.
C34_OtherSessionsUntouched ==
  [][ \A sid \in AllIds :
        (sid # last'.sid /\ sessions[sid] # 0)
          => /\ sessions'[sid] = sessions[sid]
             /\ heap'[sessions[sid]] = heap[sessions[sid]] ]_vars

C34_Witness ==
  /\ last.op = "close" /\ last.sid = "s2"
  /\ sessions["s1"] # 0 /\ sessions["s2"] # 0
  /\ heap[sessions["s1"]].connectionStatus = "connected"
  /\ heap[sessions["s2"]].connectionStatus = "disconnected"

\* C31: when the connect a reconnect timer started fails, the failure is
\* handled, the record holds no handle and no timer is set.
C31_TimerFailureAbsorbed ==
  [][ (last'.op = "connect-failed" /\ last'.caller = "timer")
        => /\ ~last'.unhandled
           /\ heap'[last'.rec].sock = NoSock
           /\ timers' = timers ]_vars

\* C32: when the process exits on a signal, every record in the registry has
\* sock null and state 'disconnected'.
C32_ShutdownCleansEverySession ==
  [][ last'.op = "exit"
        => \A sid \in AllIds :
             sessions'[sid] # 0
               => /\ heap'[sessions'[sid]].sock = NoSock
                  /\ heap'[sessions'[sid]].connectionStatus
                       = "disconnected" ]_vars

====
